---- MODULE Spec2Model ----
(***************************************************************************)
(* Model of the search windowing and caching layer of text-fabric:         *)
(*   - batchAround            (src/tf/server/data.py)                      *)
(*   - runSearch              (src/tf/applib/search.py)                    *)
(*   - runSearchCondensed     (src/tf/applib/search.py)                    *)
(*   - exposed_search         (src/tf/server/data.py)                      *)
(*   - search                 (src/tf/applib/search.py)                    *)
(* and of the section and structure methods, the text formats and          *)
(* Text.text of Text (src/tf/core/text.py).                                *)
(* The query engine (S.search), the condense helper and the corpus are     *)
(* collaborators that live outside the modelled sources; they are modelled *)
(* from their documented interface.                                        *)
(***************************************************************************)
EXTENDS Integers, Sequences, FiniteSets, TLC

VARIABLES
    \* ---- batchAround ----
    nResults,      \* argument nResults
    position,      \* argument position
    batch,         \* argument batch
    window,        \* the returned pair (left, right)
    wdone,         \* TRUE once batchAround has returned
    \* ---- runSearch / runSearchCondensed ----
    cache,         \* the dict `cache` shared by all workers
    sets,          \* app.sets
    Sexe,          \* S.exe, the engine's shared "last executed here" slot
    failTuples,    \* what the engine yields for a query it reports diagnostics on
    pc,            \* per worker: position in runSearch / runSearchCondensed
    call,          \* per worker: the call being served
    raw,           \* per worker: (queryResults, messages, exe) as delivered by plainSearch
    inner,         \* per worker: value runSearch returned to runSearchCondensed
    ret,           \* per worker: value returned to the caller
    \* ---- observation (history) ----
    engineRuns,    \* per query: number of engine executions (counted up to RunCap)
    completed,     \* per query: TRUE once a runSearch call for it has returned
    firstRet,      \* per query: value returned by the first completed runSearch call
    overwritten,   \* TRUE once a store has hit a key that was already present
    budget,        \* number of calls the clients may still issue
    \* ---- exposed_search ----
    request,       \* the arguments of one exposed_search call
    response,      \* what the call handed back (or that it raised)
    \* ---- Text: sections and structure ----
    corpus,        \* how the loaded dataset is configured (section levels, structure)
    tcall,         \* the call on the Text object being looked at
    tresult,       \* what that call returned, raised and reported
    \* ---- Text: text formats ----
    otext,         \* the text formats declared in the dataset's configuration
    rcall,         \* the call of Text.text (or of a compiled replace function)
    rresult,       \* what that call returned, raised and reported
    \* ---- app.search and the state of the session ----
    scall,         \* the arguments of the last search(app, query, ...) call
    sresult        \* what that call returned and reported

vars == <<nResults, position, batch, window, wdone,
          cache, sets, Sexe, failTuples, pc, call, raw, inner, ret,
          engineRuns, completed, firstRet, overwritten, budget,
          request, response, corpus, tcall, tresult,
          otext, rcall, rresult, scall, sresult>>

windowVars == <<nResults, position, batch, window, wdone>>

cacheVars == <<cache, sets, Sexe, failTuples, pc, call, raw, inner, ret,
               engineRuns, completed, firstRet, overwritten, budget>>

searchVars == <<request, response>>

textVars == <<corpus, tcall, tresult>>

renderVars == <<otext, rcall, rresult>>

sessionVars == <<scall, sresult>>

\* what the runSearch / runSearchCondensed steps leave alone
nonCacheVars == <<windowVars, searchVars, textVars, renderVars, sessionVars>>

\* what batchAround on its own leaves alone
nonWindowVars == <<cacheVars, searchVars, textVars, renderVars, sessionVars>>

\* what the calls on the Text object leave alone
nonTextVars == <<windowVars, cacheVars, searchVars, renderVars, sessionVars>>

----------------------------------------------------------------------------
(* Bounds *)

MaxResults == 6

MaxBatch == 7

PosSlack == 2

NWorkers == 2

MaxCalls == 2

MaxSeqCalls == 4

RunCap == 4

MaxLines == 2

MaxSearchBatch == 2

MaxSearchPos == 5

MaxOpened == 3

MaxSessionCalls == 3

----------------------------------------------------------------------------
(* batchAround *)

Min(a, b) == IF a < b THEN a ELSE b

Max(a, b) == IF a > b THEN a ELSE b

\* faulty variant: the closing clamp of right to nResults is missing
batchAroundNoClamp(n, p, b) ==
    LET halfBatch == (b + 1) \div 2
        left == Min(Max(p - halfBatch, 1), n)
        right0 == Max(Min(p + halfBatch, n), 1)
        discrepancy == b - (right0 - left + 1)
        right1 == IF discrepancy # 0 THEN right0 + discrepancy ELSE right0
    IN  <<left, right1>>

\* faulty variant: the window is not extended by the discrepancy
batchAroundNoExtend(n, p, b) ==
    LET halfBatch == (b + 1) \div 2
        left == Min(Max(p - halfBatch, 1), n)
        right0 == Max(Min(p + halfBatch, n), 1)
        right2 == IF right0 > n THEN n ELSE right0
    IN  <<left, right2>>

\* batchAround(nResults, position, batch); int((batch + 1) / 2) is the floor
\* of the quotient for the positive batch sizes considered
batchAround(n, p, b) ==
    LET halfBatch == (b + 1) \div 2
        left == Min(Max(p - halfBatch, 1), n)
        right0 == Max(Min(p + halfBatch, n), 1)
        discrepancy == b - (right0 - left + 1)
        right1 == IF discrepancy # 0 THEN right0 + discrepancy ELSE right0
        right2 == IF right1 > n THEN n ELSE right1
    IN  <<left, right2>>

\* number of entries the slice queryResults[start - 1:end] selects from a
\* sequence of n entries (Python slice semantics, negative start index wraps)
SliceCount(n, start, end) ==
    LET lo0 == start - 1
        lo1 == IF lo0 < 0 THEN Max(lo0 + n, 0) ELSE Min(lo0, n)
        hi0 == IF end < 0 THEN Max(end + n, 0) ELSE Min(end, n)
    IN  Max(hi0 - lo1, 0)

----------------------------------------------------------------------------
(* Corpus, query engine and condense: collaborators *)

Queries == {"qa", "qb"}

CondenseTypes == {"sentence", "chapter"}

SetsValues == {"None", "S1"}

\* node type of a node
otype(n) == IF n < 10 THEN "word" ELSE IF n < 20 THEN "sentence" ELSE "chapter"

\* the node of type t enclosing slot n
Container(n, t) ==
    IF t = "chapter" THEN 20 ELSE IF n <= 2 THEN 10 ELSE 11

\* the result tuples of a query, in the engine's own base order
EngineTuples(q, s, ft) ==
    IF q = "qa"
    THEN IF s = "None" THEN << <<1, 2>>, <<3, 3>>, <<1, 1>> >>
                       ELSE << <<2, 1>>, <<1, 2>> >>
    ELSE IF q = "qc" THEN << <<4>>, <<2>> >>
    ELSE ft

\* the diagnostics of a query
EngineMessages(q) == IF q \in {"qa", "qc"} THEN "" ELSE "syntax error"

NoExe == [qnodes |-> <<>>, nodeMap |-> <<>>]

\* the execution object of a query: per query-template slot the features of its
\* clause (qnodes), and extra features per slot index (nodeMap)
EngineExe(q) ==
    IF q = "qa"
    THEN [qnodes |-> << {"sp"}, {"gn"} >>, nodeMap |-> (1 :> {"lex"})]
    ELSE IF q = "qc"
    THEN [qnodes |-> << {"nu"} >>, nodeMap |-> (0 :> {"vt"}) @@ (1 :> {"ps"})]
    ELSE NoExe

\* all orders in which a generator may deliver the tuples of seq
Orders(seq) ==
    {o \in [1..Len(seq) -> 1..Len(seq)] : \A i, j \in 1..Len(seq) : i # j => o[i] # o[j]}

Reorder(seq, o) == [i \in 1..Len(seq) |-> seq[o[i]]]

----------------------------------------------------------------------------
(* sorted(): Python's order on tuples of integers *)

LexLess(a, b) ==
    \/ \E i \in 1..Min(Len(a), Len(b)) :
          /\ a[i] < b[i]
          /\ \A j \in 1..(i - 1) : a[j] = b[j]
    \/ /\ Len(a) < Len(b)
       /\ \A j \in 1..Len(a) : a[j] = b[j]

RECURSIVE Insert(_, _)
Insert(x, s) ==
    IF s = <<>> THEN <<x>>
    ELSE IF LexLess(x, Head(s)) THEN <<x>> \o s
    ELSE <<Head(s)>> \o Insert(x, Tail(s))

RECURSIVE InsertionSort(_, _)
InsertionSort(s, acc) ==
    IF s = <<>> THEN acc ELSE InsertionSort(Tail(s), Insert(Head(s), acc))

\* faulty variant: the results are cached in engine order
Unsorted(s) == s

\* tuple(sorted(queryResults))
Sorted(s) == InsertionSort(s, <<>>)

----------------------------------------------------------------------------
(* condense(api, queryResults, condenseType, multiple=True) *)

RECURSIVE Dedup(_, _)
Dedup(s, seen) ==
    IF s = <<>> THEN <<>>
    ELSE IF Head(s) \in seen THEN Dedup(Tail(s), seen)
    ELSE <<Head(s)>> \o Dedup(Tail(s), seen \cup {Head(s)})

\* each tuple is replaced by its enclosing node of type t; duplicates are merged
Condense(tuples, t) ==
    Sorted(Dedup([i \in 1..Len(tuples) |-> <<Container(tuples[i][1], t)>>], {}))

----------------------------------------------------------------------------
(* cache keys, lookup, store *)

\* cacheKey = (query, False)
PlainKey(q) == <<q, FALSE>>

\* faulty variant: the condense type is left out of the key
CondensedKeyNoType(q, t) == <<q, TRUE>>

\* cacheKey = (query, True, condenseType)
CondensedKey(q, t) == <<q, TRUE, t>>

\* faulty variant: the lookup never finds the key
CacheHitNever(c, k) == FALSE

\* cacheKey in cache
CacheHit(c, k) == k \in DOMAIN c

\* faulty variant: the assignment to the cache is missing
CacheStoreDropped(c, k, v) == c

\* faulty variant: the cache keeps the latest entry only
CacheStoreEvict(c, k, v) == (k :> v)

\* cache[cacheKey] = value
CacheStore(c, k, v) == (k :> v) @@ c

\* nodeMap.get(i, set())
NodeMapGet(exe, i) == IF i \in DOMAIN exe.nodeMap THEN exe.nodeMap[i] ELSE {}

\* features: per slot i (counted from 0) the features of qnodes[i] of the query's
\* own exe, joined with nodeMap[i] of S.exe
Features(exe, sexe) ==
    [i \in 1..Len(exe.qnodes) |-> <<i - 1, exe.qnodes[i] \cup NodeMapGet(sexe, i - 1)>>]

Value(results, messages, features) ==
    [results |-> results, messages |-> messages, features |-> features]

NoValue == Value(<<>>, "", <<>>)

NoCall == [kind |-> "none", query |-> "", ctype |-> "", invoked |-> FALSE,
           prior |-> FALSE, resorted |-> FALSE]

NoRaw == [results |-> <<>>, messages |-> "", exe |-> NoExe]

Workers == 1..NWorkers

NoRequest == [query |-> "", tuples |-> <<>>, condensed |-> FALSE, condenseType |-> "",
              batch |-> 1, position |-> 0, opened |-> {}]

NoResponse == [done |-> FALSE, raised |-> FALSE, table |-> <<>>,
               tupleMessages |-> "", queryMessages |-> "", start |-> 0, total |-> 0]

\* Python values handed in and out of the Text object: None, an integer, a
\* string, a tuple of values
PyNone == [kind |-> "None", n |-> 0, s |-> "", t |-> <<>>]

PyInt(n) == [kind |-> "int", n |-> n, s |-> "", t |-> <<>>]

PyStr(s) == [kind |-> "str", n |-> 0, s |-> s, t |-> <<>>]

PyTuple(t) == [kind |-> "tuple", n |-> 0, s |-> "", t |-> t]

NoTextCall == [op |-> "none", node |-> 0, lastSlot |-> FALSE, fillup |-> FALSE,
               lang |-> "", arg |-> PyNone]

NoTextResult == [done |-> FALSE, raised |-> "", value |-> PyNone, errors |-> <<>>]

\* no call of Text.text yet; fmt "" stands for fmt=None, descend is one of
\* "unset" (None), "true", "false"; func tells whether a custom function is passed
NoRenderCall == [op |-> "none", nodes |-> <<>>, fmt |-> "", descend |-> "unset",
                 func |-> FALSE, chain |-> <<>>, default |-> ""]

NoRenderResult == [done |-> FALSE, raised |-> "", text |-> "", errors |-> <<>>,
                   trace |-> <<>>]

NoSearchCall == [query |-> "", sets |-> "None", sort |-> "none", order |-> <<>>]

NoSearchResult == [done |-> FALSE, results |-> <<>>, warned |-> FALSE,
                   delivered |-> <<>>, tupleFeatures |-> <<>>]

----------------------------------------------------------------------------
(* Initial states *)

WindowIdle ==
    /\ nResults = 0
    /\ position = 0
    /\ batch = 1
    /\ window = <<0, 0>>
    /\ wdone = FALSE

CacheIdle ==
    /\ cache = <<>>
    /\ sets = "None"
    /\ Sexe = NoExe
    /\ failTuples = <<>>
    /\ pc = [w \in Workers |-> "idle"]
    /\ call = [w \in Workers |-> NoCall]
    /\ raw = [w \in Workers |-> NoRaw]
    /\ inner = [w \in Workers |-> NoValue]
    /\ ret = [w \in Workers |-> NoValue]
    /\ engineRuns = [q \in Queries |-> 0]
    /\ completed = [q \in Queries |-> FALSE]
    /\ firstRet = [q \in Queries |-> NoValue]
    /\ overwritten = FALSE
    /\ budget = 0

SearchIdle ==
    /\ request = NoRequest
    /\ response = NoResponse

TextIdle ==
    /\ corpus = [levels |-> 0, structured |-> FALSE]
    /\ tcall = NoTextCall
    /\ tresult = NoTextResult

RenderIdle ==
    /\ otext = {}
    /\ rcall = NoRenderCall
    /\ rresult = NoRenderResult

SessionIdle ==
    /\ scall = NoSearchCall
    /\ sresult = NoSearchResult

\* the arguments of one batchAround call
InitWindow ==
    /\ nResults \in 0..MaxResults
    /\ position \in (0 - PosSlack)..(MaxResults + PosSlack)
    /\ batch \in 1..MaxBatch
    /\ window = <<0, 0>>
    /\ wdone = FALSE
    /\ CacheIdle
    /\ SearchIdle
    /\ TextIdle
    /\ RenderIdle
    /\ SessionIdle

\* cache = {} as created by makeTfServer; app.sets and the engine are given;
\* the clients issue at most b calls
CacheGiven(b) ==
    /\ cache = <<>>
    /\ sets \in SetsValues
    /\ Sexe = NoExe
    /\ failTuples \in {<<>>, << <<2, 2>>, <<1, 3>> >>}
    /\ pc = [w \in Workers |-> "idle"]
    /\ call = [w \in Workers |-> NoCall]
    /\ raw = [w \in Workers |-> NoRaw]
    /\ inner = [w \in Workers |-> NoValue]
    /\ ret = [w \in Workers |-> NoValue]
    /\ engineRuns = [q \in Queries |-> 0]
    /\ completed = [q \in Queries |-> FALSE]
    /\ firstRet = [q \in Queries |-> NoValue]
    /\ overwritten = FALSE
    /\ budget = b

CacheStart(b) ==
    /\ CacheGiven(b)
    /\ WindowIdle
    /\ SearchIdle
    /\ TextIdle
    /\ RenderIdle
    /\ SessionIdle

InitCache == CacheStart(MaxCalls)

InitSeq == CacheStart(MaxSeqCalls)

----------------------------------------------------------------------------
(* Actions: batchAround *)

BatchAroundCall ==
    /\ ~wdone
    /\ window' = batchAround(nResults, position, batch)
    /\ wdone' = TRUE
    /\ UNCHANGED <<nResults, position, batch>>
    /\ UNCHANGED nonWindowVars

NextWindow == BatchAroundCall

SpecWindow == InitWindow /\ [][NextWindow]_vars

----------------------------------------------------------------------------
(* Actions: runSearch / runSearchCondensed.  A step runs from one access of  *)
(* the shared cache up to the next one.                                      *)

\* runSearch, entry to plainSearch: the key lookup; a hit returns the cached
\* value to the caller (the client, or runSearchCondensed); on a miss
\* plainSearch(query, here=False, msgCache=[], sets=app.sets) is executed: the
\* engine delivers its tuples in some order and leaves S.exe alone.
\* c is the frame of the call that worker w is serving.
RunSearchEnter(w, c) ==
    LET k == PlainKey(c.query)
        base == EngineTuples(c.query, sets, failTuples)
    IN  IF CacheHit(cache, k)
        THEN /\ call' = [call EXCEPT ![w] = c]
             /\ IF c.kind = "plain"
                THEN /\ ret' = [ret EXCEPT ![w] = cache[k]]
                     /\ pc' = [pc EXCEPT ![w] = "ret"]
                     /\ UNCHANGED inner
                ELSE /\ inner' = [inner EXCEPT ![w] = cache[k]]
                     /\ pc' = [pc EXCEPT ![w] = "rc_store"]
                     /\ UNCHANGED ret
             /\ UNCHANGED <<raw, engineRuns>>
        ELSE /\ \E o \in Orders(base) :
                  raw' = [raw EXCEPT ![w] = [results |-> Reorder(base, o),
                                             messages |-> EngineMessages(c.query),
                                             exe |-> EngineExe(c.query)]]
             /\ engineRuns' = [engineRuns EXCEPT ![c.query] = Min(@ + 1, RunCap)]
             /\ call' = [call EXCEPT ![w] = [c EXCEPT !.invoked = TRUE]]
             /\ pc' = [pc EXCEPT ![w] = "rs_store"]
             /\ UNCHANGED <<ret, inner>>

\* a worker serves runSearch(app, query, cache)
CallRunSearch(w, q) ==
    /\ pc[w] = "idle"
    /\ budget > 0
    /\ budget' = budget - 1
    /\ RunSearchEnter(w, [kind |-> "plain", query |-> q, ctype |-> "",
                          invoked |-> FALSE, prior |-> completed[q],
                          resorted |-> FALSE])
    /\ UNCHANGED <<cache, sets, Sexe, failTuples, completed, firstRet, overwritten>>
    /\ UNCHANGED nonCacheVars

\* a worker serves runSearchCondensed(app, query, cache, condenseType): the key
\* lookup; a hit returns the cached value, on a miss runSearch is called next
CallRunSearchCondensed(w, q, t) ==
    /\ pc[w] = "idle"
    /\ budget > 0
    /\ budget' = budget - 1
    /\ call' = [call EXCEPT ![w] = [kind |-> "condensed", query |-> q, ctype |-> t,
                                    invoked |-> FALSE, prior |-> completed[q],
                                    resorted |-> FALSE]]
    /\ LET k == CondensedKey(q, t) IN
         IF CacheHit(cache, k)
         THEN /\ ret' = [ret EXCEPT ![w] = cache[k]]
              /\ pc' = [pc EXCEPT ![w] = "ret"]
         ELSE /\ pc' = [pc EXCEPT ![w] = "rs_enter"]
              /\ UNCHANGED ret
    /\ UNCHANGED <<cache, sets, Sexe, failTuples, raw, inner,
                   engineRuns, completed, firstRet, overwritten>>
    /\ UNCHANGED nonCacheVars

\* runSearchCondensed calls runSearch(app, query, cache)
RCCallRunSearch(w) ==
    /\ pc[w] = "rs_enter"
    /\ RunSearchEnter(w, call[w])
    /\ UNCHANGED <<cache, sets, Sexe, failTuples, completed, firstRet,
                   overwritten, budget>>
    /\ UNCHANGED nonCacheVars

\* runSearch after plainSearch: features, sort, store in the cache, return
RSStore(w) ==
    /\ pc[w] = "rs_store"
    /\ LET k == PlainKey(call[w].query)
           v == Value(Sorted(raw[w].results), raw[w].messages,
                      Features(raw[w].exe, Sexe))
       IN  /\ cache' = CacheStore(cache, k, v)
           /\ overwritten' = (overwritten \/ k \in DOMAIN cache)
           /\ call' = [call EXCEPT ![w].resorted = (v.results # raw[w].results)]
           /\ IF call[w].kind = "plain"
              THEN /\ ret' = [ret EXCEPT ![w] = v]
                   /\ pc' = [pc EXCEPT ![w] = "ret"]
                   /\ UNCHANGED inner
              ELSE /\ inner' = [inner EXCEPT ![w] = v]
                   /\ pc' = [pc EXCEPT ![w] = "rc_store"]
                   /\ UNCHANGED ret
    /\ raw' = [raw EXCEPT ![w] = NoRaw]
    /\ UNCHANGED <<sets, Sexe, failTuples, engineRuns, completed, firstRet, budget>>
    /\ UNCHANGED nonCacheVars

\* runSearchCondensed: condense what runSearch returned, store, return
RCStore(w) ==
    /\ pc[w] = "rc_store"
    /\ LET k == CondensedKey(call[w].query, call[w].ctype)
           v == Value(Condense(inner[w].results, call[w].ctype),
                      inner[w].messages, inner[w].features)
       IN  /\ cache' = CacheStore(cache, k, v)
           /\ overwritten' = (overwritten \/ k \in DOMAIN cache)
           /\ ret' = [ret EXCEPT ![w] = v]
    /\ inner' = [inner EXCEPT ![w] = NoValue]
    /\ pc' = [pc EXCEPT ![w] = "ret"]
    /\ UNCHANGED <<sets, Sexe, failTuples, call, raw,
                   engineRuns, completed, firstRet, budget>>
    /\ UNCHANGED nonCacheVars

\* the caller receives the value; the worker is free again
Return(w) ==
    /\ pc[w] = "ret"
    /\ LET q == call[w].query IN
         IF call[w].kind = "plain"
         THEN /\ completed' = [completed EXCEPT ![q] = TRUE]
              /\ firstRet' = IF completed[q]
                             THEN firstRet
                             ELSE [firstRet EXCEPT ![q] = ret[w]]
         ELSE UNCHANGED <<completed, firstRet>>
    /\ pc' = [pc EXCEPT ![w] = "idle"]
    /\ call' = [call EXCEPT ![w] = NoCall]
    /\ ret' = [ret EXCEPT ![w] = NoValue]
    /\ UNCHANGED <<cache, sets, Sexe, failTuples, raw, inner,
                   engineRuns, overwritten, budget>>
    /\ UNCHANGED nonCacheVars

\* worker threads of the ThreadedServer: any interleaving
Next ==
    \E w \in Workers :
        \/ \E q \in Queries : CallRunSearch(w, q)
        \/ \E q \in Queries : \E t \in CondenseTypes : CallRunSearchCondensed(w, q, t)
        \/ RCCallRunSearch(w)
        \/ RSStore(w)
        \/ RCStore(w)
        \/ Return(w)

Spec == InitCache /\ [][Next]_vars

OthersIdle(w) == \A v \in Workers \ {w} : pc[v] = "idle"

\* a call made while no other call is in progress
SeqCallRunSearch(w, q) == OthersIdle(w) /\ CallRunSearch(w, q)

SeqCallRunSearchCondensed(w, q, t) == OthersIdle(w) /\ CallRunSearchCondensed(w, q, t)

\* calls made one after the other
NextSeq ==
    \E w \in Workers :
        \/ \E q \in Queries : SeqCallRunSearch(w, q)
        \/ \E q \in Queries : \E t \in CondenseTypes : SeqCallRunSearchCondensed(w, q, t)
        \/ RCCallRunSearch(w)
        \/ RSStore(w)
        \/ RCStore(w)
        \/ Return(w)

SpecSeq == InitSeq /\ [][NextSeq]_vars

----------------------------------------------------------------------------
(* exposed_search: literal tuples, query results, window, kept-open rows *)

\* the integer a token of a literal line stands for: int(n); a token outside
\* the domain makes int() raise ValueError
IntOf == ("7" :> 7) @@ ("8" :> 8) @@ ("9" :> 9)

\* the lines a client may put in `tuples`; a line is the list of its comma
\* separated tokens, <<>> is the empty line
LineTexts == {<<>>, <<"8", "9">>, <<"7", "x">>}

\* tuple(int(n) for n in t.strip().split(','))
ParseLine(t) == [i \in 1..Len(t) |-> IntOf[t[i]]]

\* int() raises on some token of some non-empty line
ParseFails(lines) ==
    \E j \in 1..Len(lines) : \E i \in 1..Len(lines[j]) : lines[j][i] \notin DOMAIN IntOf

\* (-i - 1, tuple) for the non-empty lines from line j on; i counts lines from 0
RECURSIVE LiteralEntries(_, _)
LiteralEntries(lines, j) ==
    IF j > Len(lines) THEN <<>>
    ELSE IF lines[j] = <<>> THEN LiteralEntries(lines, j + 1)
    ELSE << <<0 - j, ParseLine(lines[j])>> >> \o LiteralEntries(lines, j + 1)

\* the well-formed lines from line j on, a malformed line is passed over
RECURSIVE LenientEntries(_, _)
LenientEntries(lines, j) ==
    IF j > Len(lines) THEN <<>>
    ELSE IF lines[j] = <<>> \/ ParseFails(<<lines[j]>>) THEN LenientEntries(lines, j + 1)
    ELSE << <<0 - j, ParseLine(lines[j])>> >> \o LenientEntries(lines, j + 1)

\* faulty variant: a malformed line does not discard the other literal tuples
TupleResultsLenient(lines) == LenientEntries(lines, 1)

\* tupleResults: assigned only when the whole generator ran without exception
TupleResults(lines) ==
    IF lines = <<>> \/ ParseFails(lines) THEN <<>> ELSE LiteralEntries(lines, 1)

\* tupleMessages: f'{e}' of the exception, '' otherwise
TupleMessages(lines) ==
    IF lines # <<>> /\ ParseFails(lines) THEN "invalid literal for int()" ELSE ""

\* seq[lo:hi] with Python's slice semantics
PySlice(seq, lo, hi) ==
    LET n == Len(seq)
        lo1 == IF lo < 0 THEN Max(lo + n, 0) ELSE Min(lo, n)
        hi1 == IF hi < 0 THEN Max(hi + n, 0) ELSE Min(hi, n)
    IN  SubSeq(seq, lo1 + 1, hi1)

\* sorted(S) for a set of integers
RECURSIVE SortedSet(_)
SortedSet(S) ==
    IF S = {} THEN <<>>
    ELSE LET m == CHOOSE x \in S : \A y \in S : x <= y
         IN  <<m>> \o SortedSet(S \ {m})

\* before = {n for n in opened if n > 0 and n < start}
Before(opened, start) == {n \in opened : n > 0 /\ n < start}

\* after = {n for n in opened if n > end and n <= len(queryResults)}
After(opened, end, queryResults) == {n \in opened : n > end /\ n <= Len(queryResults)}

\* tuple((n, queryResults[n - 1]) for n in sorted(ns)); only called when every
\* n - 1 is an index of queryResults
KeptOpen(ns, queryResults) ==
    LET order == SortedSet(ns)
    IN  [i \in 1..Len(order) |-> <<order[i], queryResults[order[i]]>>]

\* tuple((i + start, r) for (i, r) in enumerate(selectedResults))
Numbered(selectedResults, start) ==
    [i \in 1..Len(selectedResults) |-> <<i - 1 + start, selectedResults[i]>>]

\* faulty variant: the rows kept open after the window are put before it
AllResultsAfterFirst(tupleResults, beforeResults, windowResults, afterResults) ==
    tupleResults \o afterResults \o beforeResults \o windowResults

\* allResults = tupleResults + beforeResults + (window rows) + afterResults
AllResults(tupleResults, beforeResults, windowResults, afterResults) ==
    tupleResults \o beforeResults \o windowResults \o afterResults

\* faulty variant: results delivered along with diagnostics are kept
QueryResultsKept(v) == v.results

\* (queryResults, queryMessages) = runSearch...(...);
\* if queryMessages: queryResults = ()
QueryResults(v) == IF v.messages # "" THEN <<>> ELSE v.results

\* lines 73-132 once the query has been answered with the value v (NoValue when
\* there is no query): totals, window, selection, kept-open rows, assembly.
\* queryResults[n - 1] raises IndexError for a kept-open n beyond the results.
Assemble(rq, v) ==
    LET tupleResults == IF rq.tuples # <<>> THEN TupleResults(rq.tuples) ELSE <<>>
        tupleMessages == IF rq.tuples # <<>> THEN TupleMessages(rq.tuples) ELSE ""
        queryResults == IF rq.query # "" THEN QueryResults(v) ELSE <<>>
        queryMessages == IF rq.query # "" THEN v.messages ELSE ""
        total == Len(tupleResults) + Len(queryResults)
        w == batchAround(total, rq.position, rq.batch)
        start == w[1]
        end == w[2]
        selectedResults == PySlice(queryResults, start - 1, end)
        before == Before(rq.opened, start)
        after == After(rq.opened, end, queryResults)
    IN  IF \E n \in before : n > Len(queryResults)
        THEN [NoResponse EXCEPT !.done = TRUE, !.raised = TRUE]
        ELSE [done |-> TRUE, raised |-> FALSE,
              table |-> AllResults(tupleResults,
                                   KeptOpen(before, queryResults),
                                   Numbered(selectedResults, start),
                                   KeptOpen(after, queryResults)),
              tupleMessages |-> tupleMessages, queryMessages |-> queryMessages,
              start |-> start, total |-> total]

\* runSearch(api, query, cache) run from call to return without interruption:
\* the value it returns and the cache it leaves; o is the engine's delivery order
RunSearchAtOnce(c, q, o) ==
    LET k == PlainKey(q)
        v == Value(Sorted(Reorder(EngineTuples(q, sets, failTuples), o)),
                   EngineMessages(q), Features(EngineExe(q), Sexe))
    IN  IF CacheHit(c, k)
        THEN [value |-> c[k], cache |-> c, ran |-> FALSE]
        ELSE [value |-> v, cache |-> CacheStore(c, k, v), ran |-> TRUE]

\* runSearchCondensed(api, query, cache, condenseType), likewise
RunSearchCondensedAtOnce(c, q, t, o) ==
    LET k == CondensedKey(q, t)
        r == RunSearchAtOnce(c, q, o)
        v == Value(Condense(r.value.results, t), r.value.messages, r.value.features)
    IN  IF CacheHit(c, k)
        THEN [value |-> c[k], cache |-> c, ran |-> FALSE]
        ELSE [value |-> v, cache |-> CacheStore(r.cache, k, v), ran |-> r.ran]

\* runSearchCondensed(...) if condensed and condenseType else runSearch(...)
Answer(rq, c, o) ==
    IF rq.condensed /\ rq.condenseType # ""
    THEN RunSearchCondensedAtOnce(c, rq.query, rq.condenseType, o)
    ELSE RunSearchAtOnce(c, rq.query, o)

\* the requests of the clients
Requests ==
    {rq \in [query : {""} \cup Queries,
             tuples : UNION {[1..k -> LineTexts] : k \in 0..MaxLines},
             condensed : BOOLEAN,
             condenseType : {"", "sentence"},
             batch : 1..MaxSearchBatch,
             position : 0..MaxSearchPos,
             opened : SUBSET (0..MaxOpened)] :
        Cardinality(rq.opened) <= 2}

\* one request arrives at a freshly started server without extra node sets,
\* whose engine delivers tuples along with the diagnostics of a failing query
InitSearch ==
    /\ request \in Requests
    /\ response = NoResponse
    /\ CacheGiven(0)
    /\ sets = "None"
    /\ failTuples # <<>>
    /\ WindowIdle
    /\ TextIdle
    /\ RenderIdle
    /\ SessionIdle

\* exposed_search with a query
SearchWithQuery ==
    /\ ~response.done
    /\ request.query # ""
    /\ \E o \in Orders(EngineTuples(request.query, sets, failTuples)) :
         LET a == Answer(request, cache, o) IN
           /\ cache' = a.cache
           /\ response' = Assemble(request, a.value)
           /\ engineRuns' = IF a.ran
                            THEN [engineRuns EXCEPT ![request.query] = Min(@ + 1, RunCap)]
                            ELSE engineRuns
           /\ IF request.condensed /\ request.condenseType # ""
              THEN UNCHANGED <<completed, firstRet>>
              ELSE /\ completed' = [completed EXCEPT ![request.query] = TRUE]
                   /\ firstRet' = [firstRet EXCEPT ![request.query] = a.value]
    /\ UNCHANGED <<sets, Sexe, failTuples, pc, call, raw, inner, ret, overwritten, budget>>
    /\ UNCHANGED <<request, windowVars, textVars, renderVars, sessionVars>>

\* exposed_search without a query: literal tuples only
SearchWithoutQuery ==
    /\ ~response.done
    /\ request.query = ""
    /\ response' = Assemble(request, NoValue)
    /\ UNCHANGED <<request, windowVars, cacheVars, textVars, renderVars, sessionVars>>

NextSearch == SearchWithQuery \/ SearchWithoutQuery

SpecSearch == InitSearch /\ [][NextSearch]_vars

----------------------------------------------------------------------------
(* The dataset the Text object is built on: collaborators (Feature Store,   *)
(* locality, precomputed section and structure tables)                      *)

slotType == "word"

\* the slots: words 1..6
Slots == {1, 2, 3, 4, 5, 6}

maxSlot == Cardinality(Slots)

\* E.oslots.data: the slots of the non-slot nodes maxSlot + 1, maxSlot + 2, ...
\* books 7 8, chapters 9 10 11, verses 12 13 14, line 15.  Slot 6 lies outside
\* every book, slot 5 in a book but in no chapter, slot 3 in a chapter but in no
\* verse.
eoslots ==
    << <<1, 2, 3>>, <<4, 5>>, <<1, 2>>, <<3>>, <<4>>, <<1>>, <<2>>, <<4>>, <<2, 3>> >>

TNodes == 1..(maxSlot + Len(eoslots))

\* F.otype.v
fOtype(n) ==
    IF n <= maxSlot THEN slotType
    ELSE IF n <= 8 THEN "book"
    ELSE IF n <= 11 THEN "chapter"
    ELSE IF n <= 14 THEN "verse"
    ELSE "line"

SlotsOf(n) == IF n <= maxSlot THEN {n} ELSE {eoslots[n - maxSlot][i] : i \in 1..Len(eoslots[n - maxSlot])}

\* L.u(r, otype=t) for a slot r: the nodes of type t that contain r
LUp(r, t) == SortedSet({n \in TNodes : n > maxSlot /\ fOtype(n) = t /\ r \in SlotsOf(n)})

\* TF.sectionTypes of a dataset with the given number of section levels
SectionTypes(c) == SubSeq(<<"book", "chapter", "verse">>, 1, c.levels)

\* the book names per language code; "" is the default language.  In "la" both
\* books bear the same name, in "sy" only the first book has a name.
BookNames ==
    [code \in {"", "la", "sy"} |->
        IF code = "" THEN (7 :> "Genesis") @@ (8 :> "Exodus")
        ELSE IF code = "la" THEN (7 :> "Liber") @@ (8 :> "Liber")
        ELSE (7 :> "Brita")]

\* the language codes a caller may pass; "en" is not a language of the dataset
LangCodes == {"", "la", "sy", "en"}

\* the section features of levels 1 and 2: chapter and verse numbers
SectionNumber == (9 :> 1) @@ (10 :> 2) @@ (11 :> 1) @@ (12 :> 1) @@ (13 :> 2) @@ (14 :> 1)

\* the first node in S, as a Python value (None when there is none)
FirstOrNone(S) == IF S = {} THEN PyNone ELSE PyInt(CHOOSE x \in S : \A y \in S : x <= y)

\* C.sections.data[0]: sec1[top node][mid label] = mid node
Sec1Get(c, n0, l1) ==
    IF c.levels < 2 \/ n0.kind # "int" \/ l1.kind # "int" THEN PyNone
    ELSE FirstOrNone({m \in TNodes : /\ fOtype(m) = "chapter"
                                     /\ SlotsOf(m) \subseteq SlotsOf(n0.n)
                                     /\ SectionNumber[m] = l1.n})

\* C.sections.data[1]: sec2[top node][mid label][bottom label] = bottom node
Sec2Get(c, n0, l1, l2) ==
    IF c.levels < 3 \/ l2.kind # "int" THEN PyNone
    ELSE LET n1 == Sec1Get(c, n0, l1) IN
         IF n1.kind # "int" THEN PyNone
         ELSE FirstOrNone({m \in TNodes : /\ fOtype(m) = "verse"
                                          /\ SlotsOf(m) \subseteq SlotsOf(n1.n)
                                          /\ SectionNumber[m] = l2.n})

\* TF.structureTypes
StructureTypes == <<"book", "chapter">>

\* the structure features: the label of a structural node; chapters 9 and 10
\* of the first book carry the same label
StructLabel == (7 :> "A") @@ (8 :> "B") @@ (9 :> "x") @@ (10 :> "x") @@ (11 :> "x")

StructNodes == {n \in TNodes : \E i \in 1..Len(StructureTypes) : fOtype(n) = StructureTypes[i]}

\* the structural parent of a structural node (0 when it has none)
StructParent(n) ==
    IF fOtype(n) = "book" THEN 0
    ELSE CHOOSE b \in StructNodes : fOtype(b) = "book" /\ SlotsOf(n) \subseteq SlotsOf(b)

\* the heading of a structural node: (type, label) of its ancestors and itself
HeadingOf(n) ==
    LET own == PyTuple(<<PyStr(fOtype(n)), PyStr(StructLabel[n])>>)
        p == StructParent(n)
    IN  IF p = 0 THEN PyTuple(<<own>>)
        ELSE PyTuple(<<PyTuple(<<PyStr(fOtype(p)), PyStr(StructLabel[p])>>), own>>)

\* C.structure.data: hdFromNd, ndFromHd (the last node in corpus order wins),
\* hdMult (all nodes of a heading that more than one node has), hdTop, hdUp,
\* hdDown; every member is None when no structure is configured
HdFromNdGet(n) == IF n \in StructNodes THEN HeadingOf(n) ELSE PyNone

Colliders(h) == {n \in StructNodes : HeadingOf(n) = h}

NdFromHdGet(h) ==
    IF Colliders(h) = {} THEN PyNone
    ELSE PyInt(CHOOSE x \in Colliders(h) : \A y \in Colliders(h) : y <= x)

HdMultGet(h) == IF Cardinality(Colliders(h)) > 1 THEN Colliders(h) ELSE {}

HdTop == SortedSet({n \in StructNodes : StructParent(n) = 0})

HdUpGet(n) == IF n \in StructNodes /\ StructParent(n) # 0 THEN PyInt(StructParent(n)) ELSE PyNone

HdDownGet(n) == SortedSet({m \in StructNodes : StructParent(m) = n})

----------------------------------------------------------------------------
(* Text: sectionTuple, sectionFromNode, nodeFromSection, structure,         *)
(* top, up, down, headingFromNode, nodeFromHeading                          *)

\* a call that returned v after reporting the messages errs through api.error
Returns(v, errs) == [done |-> TRUE, raised |-> "", value |-> v, errors |-> errs]

\* a call that raised exception e
Raises(e) == [done |-> TRUE, raised |-> e, value |-> PyNone, errors |-> <<>>]

NotConfigured == "structure types are not configured"

WrongType == "not configured as a structure type"

\* r1 = L.u(r, otype=t); r1 = r1[0] if r1 else ""
UpOrEmpty(r, t) == IF LUp(r, t) = <<>> THEN PyStr("") ELSE PyInt(LUp(r, t)[1])

\* r0s = L.u(r, sTypes[0]); r0 = r0s[0] if r0s else None
UpOrNone(r, t) == IF LUp(r, t) = <<>> THEN PyNone ELSE PyInt(LUp(r, t)[1])

\* the reference slot: n itself, or slots[-1 if lastSlot else 0]
RefSlot(n, lastSlot) ==
    IF fOtype(n) = slotType THEN n
    ELSE LET slots == eoslots[n - maxSlot]
         IN  IF lastSlot THEN slots[Len(slots)] ELSE slots[1]

\* Text.sectionTuple; sTypes[i] of the source is sTypes[i + 1] here, and
\* sTypes[1] of the source raises IndexError when there is one section level
sectionTuple(c, n, lastSlot, fillup) ==
    LET sTypes == SectionTypes(c)
        lsTypes == Len(sTypes)
        nType == fOtype(n)
        r == RefSlot(n, lastSlot)
    IN  IF lsTypes = 0 THEN Returns(PyTuple(<<>>), <<>>)
        ELSE IF nType = sTypes[1]
        THEN IF fillup
             THEN IF lsTypes < 2 THEN Raises("IndexError")
                  ELSE IF lsTypes > 2
                  THEN Returns(PyTuple(<<PyInt(n), UpOrEmpty(r, sTypes[2]),
                                         UpOrEmpty(r, sTypes[3])>>), <<>>)
                  ELSE Returns(PyTuple(<<PyInt(n), UpOrEmpty(r, sTypes[2])>>), <<>>)
             ELSE Returns(PyTuple(<<PyInt(n)>>), <<>>)
        ELSE LET r0 == UpOrNone(r, sTypes[1]) IN
             IF lsTypes < 2 THEN Raises("IndexError")
             ELSE IF nType = sTypes[2]
             THEN IF fillup /\ lsTypes > 2
                  THEN Returns(PyTuple(<<r0, PyInt(n), UpOrEmpty(r, sTypes[3])>>), <<>>)
                  ELSE Returns(PyTuple(<<r0, PyInt(n)>>), <<>>)
             ELSE LET r1 == UpOrEmpty(r, sTypes[2]) IN
                  IF lsTypes < 3 THEN Returns(PyTuple(<<r0, r1>>), <<>>)
                  ELSE IF nType = sTypes[3]
                  THEN Returns(PyTuple(<<r0, r1, PyInt(n)>>), <<>>)
                  ELSE Returns(PyTuple(<<r0, r1, UpOrEmpty(r, sTypes[3])>>), <<>>)

\* the languages of the dataset: the codes of the top-level name features
Languages(c) == IF c.levels = 0 THEN {} ELSE DOMAIN BookNames

\* "" if lang not in self.languages else lang
LangKey(c, lang) == IF lang \notin Languages(c) THEN "" ELSE lang

\* Text._sec0Name for a top-level node n
sec0Name(c, n, lang) ==
    LET lookup == BookNames[LangKey(c, lang)]
    IN  IF n \in DOMAIN lookup THEN PyStr(lookup[n]) ELSE PyStr("not a book node")

\* self.nodeFromName[code].get((sec0T, name), None); the dictionary is filled
\* in the order of the nodes, a later node with the same name replaces an
\* earlier one
NodeFromNameGet(code, type, name) ==
    LET cands == {n \in DOMAIN BookNames[code] :
                     fOtype(n) = type /\ PyStr(BookNames[code][n]) = name}
    IN  IF cands = {} THEN PyNone
        ELSE PyInt(CHOOSE x \in cands : \A y \in cands : y <= x)

\* faulty variant: the language code is used as given, unknown or not
sec0NodeNoFallback(c, name, lang) ==
    IF lang \notin DOMAIN BookNames THEN Raises("KeyError")
    ELSE Returns(NodeFromNameGet(lang, SectionTypes(c)[1], name), <<>>)

\* Text._sec0Node; a code that is no key of nodeFromName raises KeyError
sec0Node(c, name, lang) ==
    LET code == LangKey(c, lang)
    IN  IF code \notin DOMAIN BookNames THEN Raises("KeyError")
        ELSE Returns(NodeFromNameGet(code, SectionTypes(c)[1], name), <<>>)

\* sFs[i].get(n, None) for the level i >= 1 (chapter and verse numbers)
SectionFeatureGet(m) ==
    IF m.kind = "int" /\ m.n \in DOMAIN SectionNumber THEN PyInt(SectionNumber[m.n])
    ELSE PyNone

\* Text.sectionFromNode
sectionFromNode(c, n, lastSlot, lang, fillup) ==
    LET st == sectionTuple(c, n, lastSlot, fillup)
        sTuple == st.value.t
    IN  IF st.raised # "" THEN st
        ELSE Returns(PyTuple([i \in 1..Len(sTuple) |->
                                IF sTuple[i] = PyNone THEN PyStr("")
                                ELSE IF i = 1 THEN sec0Name(c, sTuple[i].n, lang)
                                ELSE SectionFeatureGet(sTuple[i])]), <<>>)

\* Text.nodeFromSection
nodeFromSection(c, section, lang) ==
    IF c.levels = 0 THEN Returns(PyNone, <<>>)
    ELSE IF Len(section.t) = 0 THEN Raises("IndexError")
    ELSE LET s0 == sec0Node(c, section.t[1], lang) IN
         IF s0.raised # "" THEN s0
         ELSE IF Len(section.t) = 1 THEN Returns(s0.value, <<>>)
         ELSE IF Len(section.t) = 2
         THEN Returns(Sec1Get(c, s0.value, section.t[2]), <<>>)
         ELSE Returns(Sec2Get(c, s0.value, section.t[2], section.t[3]), <<>>)

\* nType not in self.structureTypeSet
NotStructural(n) == n \notin StructNodes

\* Text.top
top(c) ==
    IF ~c.structured THEN Returns(PyNone, <<NotConfigured>>)
    ELSE Returns(PyTuple([i \in 1..Len(HdTop) |-> PyInt(HdTop[i])]), <<>>)

\* Text.up
up(c, n) ==
    IF ~c.structured THEN Returns(PyNone, <<NotConfigured>>)
    ELSE IF NotStructural(n) THEN Returns(PyNone, <<WrongType>>)
    ELSE Returns(HdUpGet(n), <<>>)

\* Text.down
down(c, n) ==
    IF ~c.structured THEN Returns(PyNone, <<NotConfigured>>)
    ELSE IF NotStructural(n) THEN Returns(PyNone, <<WrongType>>)
    ELSE Returns(PyTuple([i \in 1..Len(HdDownGet(n)) |-> PyInt(HdDownGet(n)[i])]), <<>>)

\* (node, tuple(self.structure(node=d) for d in self.down(node))) of a
\* structural node
RECURSIVE StructureBelow(_, _)
StructureBelow(c, n) ==
    LET ds == down(c, n).value.t
    IN  PyTuple(<<PyInt(n), PyTuple([i \in 1..Len(ds) |-> StructureBelow(c, ds[i].n)])>>)

\* Text.structure; node = 0 stands for node=None
structure(c, n) ==
    IF ~c.structured THEN Returns(PyNone, <<NotConfigured>>)
    ELSE IF n = 0
    THEN Returns(PyTuple([i \in 1..Len(top(c).value.t) |->
                            StructureBelow(c, top(c).value.t[i].n)]), <<>>)
    ELSE IF NotStructural(n) THEN Returns(PyNone, <<WrongType>>)
    ELSE Returns(StructureBelow(c, n), <<>>)

\* Text.headingFromNode
headingFromNode(c, n) ==
    IF ~c.structured THEN Returns(PyNone, <<NotConfigured>>)
    ELSE IF NotStructural(n) THEN Returns(PyNone, <<WrongType>>)
    ELSE Returns(HdFromNdGet(n), <<>>)

\* faulty variant: the heading is looked up among the parents
nodeFromHeadingUp(c, head) ==
    IF ~c.structured THEN Raises("AttributeError")
    ELSE IF NdFromHdGet(head) = PyNone THEN Returns(PyNone, <<"no structure node with heading">>)
    ELSE Returns(HdUpGet(NdFromHdGet(head).n), <<>>)

\* Text.nodeFromHeading; without structure the error is reported and the
\* lookup on ndFromHd = None follows all the same
nodeFromHeading(c, head) ==
    IF ~c.structured THEN Raises("AttributeError")
    ELSE IF NdFromHdGet(head) = PyNone THEN Returns(PyNone, <<"no structure node with heading">>)
    ELSE Returns(NdFromHdGet(head), <<>>)

\* the headings a caller may ask for: those of the structural nodes and one
\* that no node has
HeadingArgs ==
    {HeadingOf(n) : n \in StructNodes} \cup {PyTuple(<<PyTuple(<<PyStr("book"), PyStr("C")>>)>>)}

\* a dataset is loaded: with 0 to 3 section levels, with or without structure
InitText ==
    /\ corpus \in [levels : 0..3, structured : BOOLEAN]
    /\ tcall = NoTextCall
    /\ tresult = NoTextResult
    /\ WindowIdle
    /\ CacheIdle
    /\ SearchIdle
    /\ RenderIdle
    /\ SessionIdle

TextCall(op, n, lastSlot, fillup, lang, arg) ==
    [op |-> op, node |-> n, lastSlot |-> lastSlot, fillup |-> fillup,
     lang |-> lang, arg |-> arg]

\* the calls are looked at one by one: the Text object never changes, so a call
\* does not depend on the calls before it
CallSectionTuple(n, lastSlot, fillup) ==
    /\ ~tresult.done
    /\ tcall' = TextCall("sectionTuple", n, lastSlot, fillup, "", PyNone)
    /\ tresult' = sectionTuple(corpus, n, lastSlot, fillup)
    /\ UNCHANGED <<corpus, nonTextVars>>

CallSectionFromNode(n, lastSlot, lang, fillup) ==
    /\ ~tresult.done
    /\ tcall' = TextCall("sectionFromNode", n, lastSlot, fillup, lang, PyNone)
    /\ tresult' = sectionFromNode(corpus, n, lastSlot, lang, fillup)
    /\ UNCHANGED <<corpus, nonTextVars>>

\* the section just obtained from sectionFromNode is handed to nodeFromSection,
\* with the same language code; tcall.node keeps the node it came from
CallNodeFromSection ==
    /\ tcall.op = "sectionFromNode"
    /\ tresult.raised = ""
    /\ tcall' = [tcall EXCEPT !.op = "nodeFromSection", !.arg = tresult.value]
    /\ tresult' = nodeFromSection(corpus, tresult.value, tcall.lang)
    /\ UNCHANGED <<corpus, nonTextVars>>

CallTop ==
    /\ ~tresult.done
    /\ tcall' = TextCall("top", 0, FALSE, FALSE, "", PyNone)
    /\ tresult' = top(corpus)
    /\ UNCHANGED <<corpus, nonTextVars>>

CallUp(n) ==
    /\ ~tresult.done
    /\ tcall' = TextCall("up", n, FALSE, FALSE, "", PyNone)
    /\ tresult' = up(corpus, n)
    /\ UNCHANGED <<corpus, nonTextVars>>

CallDown(n) ==
    /\ ~tresult.done
    /\ tcall' = TextCall("down", n, FALSE, FALSE, "", PyNone)
    /\ tresult' = down(corpus, n)
    /\ UNCHANGED <<corpus, nonTextVars>>

CallStructure(n) ==
    /\ ~tresult.done
    /\ tcall' = TextCall("structure", n, FALSE, FALSE, "", PyNone)
    /\ tresult' = structure(corpus, n)
    /\ UNCHANGED <<corpus, nonTextVars>>

CallHeadingFromNode(n) ==
    /\ ~tresult.done
    /\ tcall' = TextCall("headingFromNode", n, FALSE, FALSE, "", PyNone)
    /\ tresult' = headingFromNode(corpus, n)
    /\ UNCHANGED <<corpus, nonTextVars>>

CallNodeFromHeading(h) ==
    /\ ~tresult.done
    /\ tcall' = TextCall("nodeFromHeading", 0, FALSE, FALSE, "", h)
    /\ tresult' = nodeFromHeading(corpus, h)
    /\ UNCHANGED <<corpus, nonTextVars>>

\* the heading just obtained from headingFromNode is handed to
\* nodeFromHeading; tcall.node keeps the node it came from
CallNodeFromHeadingOfNode ==
    /\ tcall.op = "headingFromNode"
    /\ tresult.raised = ""
    /\ tresult.value # PyNone
    /\ tcall' = [tcall EXCEPT !.op = "nodeFromHeadingOfNode", !.arg = tresult.value]
    /\ tresult' = nodeFromHeading(corpus, tresult.value)
    /\ UNCHANGED <<corpus, nonTextVars>>

NextText ==
    \/ \E n \in TNodes : \E l, f \in BOOLEAN : CallSectionTuple(n, l, f)
    \/ \E n \in TNodes : \E l, f \in BOOLEAN : \E lang \in LangCodes :
          CallSectionFromNode(n, l, lang, f)
    \/ CallNodeFromSection
    \/ CallTop
    \/ \E n \in TNodes : CallUp(n)
    \/ \E n \in TNodes : CallDown(n)
    \/ \E n \in TNodes \cup {0} : CallStructure(n)
    \/ \E n \in TNodes : CallHeadingFromNode(n)
    \/ \E h \in HeadingArgs : CallNodeFromHeading(h)
    \/ CallNodeFromHeadingOfNode

SpecText == InitText /\ [][NextText]_vars

----------------------------------------------------------------------------
(* Text formats: the configuration (TF.cformats, the feature data) is a     *)
(* collaborator; _compileFormats, splitFormat, splitDefaultFormat,          *)
(* _compileFormat, _makeFunc and Text.text are translated from text.py      *)

DEFAULT_FORMAT == "text-orig-full"

SEP == "-"

TYPE_FMT_SEP == "#"

\* F.otype.all
otypes == {"word", "book", "chapter", "verse", "line"}

\* str(n) for the integers that occur
Digits == <<"1", "2", "3", "4", "5", "6", "7", "8", "9", "10", "11", "12", "13", "14", "15">>

\* str(v) as str.format applies it to a value
PyFormat(v) ==
    IF v.kind = "str" THEN v.s
    ELSE IF v.kind = "int" THEN (IF v.n = 0 THEN "0" ELSE Digits[v.n])
    ELSE "None"

\* truth value of a Python value
Truthy(v) ==
    IF v.kind = "str" THEN v.s # ""
    ELSE IF v.kind = "int" THEN v.n # 0
    ELSE IF v.kind = "tuple" THEN v.t # <<>>
    ELSE FALSE

\* Fs(ft).data: the values of the features; "g" has the empty string for
\* word 2 and the number 0 for word 3
FsData ==
    [ft \in {"g", "lex", "alt", "num"} |->
        IF ft = "g" THEN (1 :> PyStr("In")) @@ (2 :> PyStr("")) @@ (3 :> PyInt(0))
        ELSE IF ft = "lex" THEN (2 :> PyStr("be")) @@ (3 :> PyStr("go")) @@ (4 :> PyStr("in"))
        ELSE IF ft = "alt" THEN (3 :> PyStr("gone")) @@ (5 :> PyStr("at"))
        ELSE (9 :> PyInt(1)) @@ (12 :> PyInt(1)) @@ (13 :> PyInt(2)) @@ (14 :> PyInt(1))]

FeatureNames == DOMAIN FsData

\* dict.get(n, d)
DataGet(ft, n, d) == IF n \in DOMAIN FsData[ft] THEN FsData[ft][n] ELSE d

\* _getVal: the loop over a chain from position i on; v is None when no feature
\* of the chain has a value for n
RECURSIVE FirstValue(_, _, _)
FirstValue(feat, i, n) ==
    IF i > Len(feat) THEN PyNone
    ELSE IF DataGet(feat[i], n, PyNone) # PyNone THEN DataGet(feat[i], n, PyNone)
    ELSE FirstValue(feat, i + 1, n)

\* _makeFunc(feat, default) applied to node n: one lookup for a chain of one,
\* a nested lookup for a chain of two, the loop and `v or default` otherwise
makeFunc(feat, default, n) ==
    IF Len(feat) = 1 THEN DataGet(feat[1], n, PyStr(default))
    ELSE IF Len(feat) = 2
    THEN DataGet(feat[1], n, DataGet(feat[2], n, PyStr(default)))
    ELSE IF Truthy(FirstValue(feat, 1, n)) THEN FirstValue(feat, 1, n)
    ELSE PyStr(default)

\* TF.cformats: per format name the raw template and the feature chains of its
\* placeholders with their defaults.  A template is given as its pieces: the
\* literal texts, the separator "#" and the placeholder "{}".
cformats ==
    [fmt \in {"text-orig-full", "lex-orig-full", "verse-default", "text-trans-plain"} |->
        IF fmt = "text-orig-full"
        THEN [rtpl |-> <<"{}", " ">>,
              feats |-> << [feat |-> <<"g", "lex">>, default |-> "?"] >>]
        ELSE IF fmt = "lex-orig-full"
        THEN [rtpl |-> <<"verse", "#", "[", "{}", "]">>,
              feats |-> << [feat |-> <<"num">>, default |-> ""] >>]
        ELSE IF fmt = "verse-default"
        THEN [rtpl |-> <<"v", "{}", ";">>,
              feats |-> << [feat |-> <<"num">>, default |-> "0"] >>]
        ELSE [rtpl |-> <<"n", "#", "{}", "{}">>,
              feats |-> << [feat |-> <<"alt", "lex", "g">>, default |-> "-"],
                           [feat |-> <<"num">>, default |-> ""] >>]]

AllFormats == DOMAIN cformats

\* the format names as split at SEP
NameParts ==
    [fmt \in AllFormats |->
        IF fmt = "text-orig-full" THEN <<"text", "orig", "full">>
        ELSE IF fmt = "lex-orig-full" THEN <<"lex", "orig", "full">>
        ELSE IF fmt = "verse-default" THEN <<"verse", "default">>
        ELSE <<"text", "trans", "plain">>]

\* sep.join(parts)
RECURSIVE Join(_, _)
Join(parts, sep) ==
    IF parts = <<>> THEN ""
    ELSE IF Len(parts) = 1 THEN parts[1]
    ELSE parts[1] \o sep \o Join(Tail(parts), sep)

\* splitDefaultFormat(fmt): the type of a format named <type>-default, "" for None
splitDefaultFormat(fmt) ==
    LET all == NameParts[fmt]
        parts == IF Len(all) < 2 THEN all
                 ELSE <<Join(SubSeq(all, 1, Len(all) - 1), SEP), all[Len(all)]>>
    IN  IF Len(parts) = 2 /\ parts[2] = "default" /\ parts[1] \in otypes
        THEN parts[1]
        ELSE ""

\* position of the first separator "#" in a template, 0 when there is none
FirstSep(tpl) ==
    IF \E i \in 1..Len(tpl) : tpl[i] = TYPE_FMT_SEP
    THEN CHOOSE i \in 1..Len(tpl) :
            tpl[i] = TYPE_FMT_SEP /\ \A j \in 1..(i - 1) : tpl[j] # TYPE_FMT_SEP
    ELSE 0

\* splitFormat(tpl): (descendType, tpl); the slot type unless the template
\* starts with <type>#
splitFormat(tpl) ==
    LET k == FirstSep(tpl)
        head == IF k = 0 THEN "" ELSE Join(SubSeq(tpl, 1, k - 1), "")
    IN  IF k # 0 /\ head \in otypes
        THEN [descendType |-> head, tpl |-> SubSeq(tpl, k + 1, Len(tpl))]
        ELSE [descendType |-> slotType, tpl |-> tpl]

\* self._xdTypes[fmt]
xdTypes(fmt) == splitFormat(cformats[fmt].rtpl).descendType

\* self.defaultFormats of a dataset that declares the formats ot: type -> format
defaultFormats(ot) ==
    [t \in {splitDefaultFormat(f) : f \in ot} \ {""} |->
        CHOOSE f \in ot : splitDefaultFormat(f) = t]

\* rtpl.format(*values)
RECURSIVE StrFormat(_, _)
StrFormat(tpl, values) ==
    IF tpl = <<>> THEN ""
    ELSE IF Head(tpl) = "{}"
    THEN PyFormat(Head(values)) \o StrFormat(Tail(tpl), Tail(values))
    ELSE Head(tpl) \o StrFormat(Tail(tpl), values)

\* self._xformats[fmt](n): the closure g of _compileFormat
xformat(fmt, n) ==
    LET feats == cformats[fmt].feats
        values == [i \in 1..Len(feats) |-> makeFunc(feats[i].feat, feats[i].default, n)]
    IN  StrFormat(splitFormat(cformats[fmt].rtpl).tpl, values)

\* the custom function a caller passes as func
CustomFunc(n) == "<" \o Digits[n] \o ">"

\* rescue(n) = f"{fOtype(n)}{n}"
rescue(n) == fOtype(n) \o Digits[n]

\* L.d(n, otype=t): the nodes of type t embedded in n, in canonical order
LDown(n, t) ==
    SortedSet({m \in TNodes : m # n /\ fOtype(m) = t /\ SlotsOf(m) \subseteq SlotsOf(n)})

\* one lookup xformats[f] / xdTypes[f] in the plain dicts: KeyError when absent
Lookup(ot, f, downType) == [ok |-> f \in ot, fmt |-> f, down |-> downType]

\* faulty variant: per-type default formats are never looked at
ResolveGlobalOnly(ot, nType, fmt, descend) ==
    IF fmt # ""
    THEN Lookup(ot, fmt, IF descend # "false" /\ fmt \in ot THEN xdTypes(fmt) ELSE nType)
    ELSE Lookup(ot, DEFAULT_FORMAT,
                IF descend # "false" THEN xdTypes(DEFAULT_FORMAT) ELSE nType)

\* the branches of the loop body that choose repf and downType for a node of
\* type nType (lines 822-868)
Resolve(ot, nType, fmt, descend) ==
    IF descend = "true"
    THEN IF fmt # ""
         THEN Lookup(ot, fmt, IF fmt \in ot THEN xdTypes(fmt) ELSE "")
         ELSE Lookup(ot, DEFAULT_FORMAT, xdTypes(DEFAULT_FORMAT))
    ELSE IF fmt # ""
         THEN Lookup(ot, fmt, IF descend = "unset" /\ fmt \in ot THEN xdTypes(fmt) ELSE nType)
         ELSE IF nType \in DOMAIN defaultFormats(ot)
         THEN Lookup(ot, defaultFormats(ot)[nType], nType)
         ELSE Lookup(ot, DEFAULT_FORMAT,
                     IF descend = "unset" THEN xdTypes(DEFAULT_FORMAT) ELSE nType)

\* xnodes: the node itself when downType is its own type, its slots when
\* downType is the slot type, its embedded nodes of type downType otherwise
Expand(node, downType) ==
    IF downType = fOtype(node) THEN <<node>>
    ELSE IF downType = slotType THEN eoslots[node - maxSlot]
    ELSE LDown(node, downType)

\* the pieces material gets for one input node
Pieces(xnodes, fmt, func) ==
    [i \in 1..Len(xnodes) |-> IF func THEN CustomFunc(xnodes[i]) ELSE xformat(fmt, xnodes[i])]

\* what the loop does for the i-th input node
NodeStep(ot, c, i) ==
    LET r == Resolve(ot, fOtype(c.nodes[i]), c.fmt, c.descend)
        xnodes == IF r.ok THEN Expand(c.nodes[i], r.down) ELSE <<>>
    IN  [ok |-> r.ok, node |-> c.nodes[i], fmt |-> r.fmt, down |-> r.down,
         xnodes |-> xnodes,
         pieces |-> IF r.ok THEN Pieces(xnodes, r.fmt, c.func) ELSE <<>>]

RECURSIVE Material(_)
Material(steps) ==
    IF steps = <<>> THEN "" ELSE Join(Head(steps).pieces, "") \o Material(Tail(steps))

\* the loop over the nodes and the return; a failing dict lookup ends the call
\* with KeyError.  repf is a compiled closure or func, so `not repf` is false
\* and good stays True.
textLoop(ot, c) ==
    LET steps == [i \in 1..Len(c.nodes) |-> NodeStep(ot, c, i)]
    IN  IF \E i \in 1..Len(steps) : ~steps[i].ok
        THEN [done |-> TRUE, raised |-> "KeyError", text |-> "", errors |-> <<>>,
              trace |-> <<>>]
        ELSE [done |-> TRUE, raised |-> "", text |-> Material(steps), errors |-> <<>>,
              trace |-> steps]

\* faulty variant: the test for an undefined format is missing
textUnchecked(ot, c) == textLoop(ot, c)

\* Text.text(nodes, fmt, descend, func)
text(ot, c) ==
    IF c.fmt # "" /\ c.fmt \notin ot
    THEN [done |-> TRUE, raised |-> "", text |-> "",
          errors |-> <<"Undefined format">>, trace |-> <<>>]
    ELSE textLoop(ot, c)

\* the node sequences passed to Text.text: slots, a verse, a book, a line, a
\* chapter, mixed
NodeArgs == {<<>>, <<1>>, <<2, 3>>, <<12>>, <<7>>, <<15>>, <<9, 4>>, <<13, 8>>}

FormatArgs == {""} \cup AllFormats \cup {"text-orig-plain"}

DescendArgs == {"unset", "true", "false"}

\* the chains and defaults a placeholder may be compiled from
ChainArgs ==
    {<<"g">>, <<"lex">>, <<"g", "lex">>, <<"alt", "g">>, <<"g", "lex", "alt">>,
     <<"alt", "lex", "g">>, <<"num", "alt", "lex">>}

DefaultArgs == {"", "?"}

----------------------------------------------------------------------------
(* Actions: Text.text *)

\* a dataset is loaded that declares some of the formats
InitRender ==
    /\ otext \in SUBSET AllFormats
    /\ rcall = NoRenderCall
    /\ rresult = NoRenderResult
    /\ WindowIdle
    /\ CacheIdle
    /\ SearchIdle
    /\ TextIdle
    /\ SessionIdle

\* T.text(nodes, fmt=fmt, descend=descend, func=func)
CallText(nodes, fmt, descend, func) ==
    /\ ~rresult.done
    /\ rcall' = [op |-> "text", nodes |-> nodes, fmt |-> fmt, descend |-> descend,
                 func |-> func, chain |-> <<>>, default |-> ""]
    /\ rresult' = text(otext, rcall')
    /\ UNCHANGED <<otext, windowVars, cacheVars, searchVars, textVars, sessionVars>>

\* a compiled replace function _makeFunc(feat, default) is applied to node n
CallReplaceFunc(feat, default, n) ==
    /\ ~rresult.done
    /\ rcall' = [op |-> "replace", nodes |-> <<n>>, fmt |-> "", descend |-> "unset",
                 func |-> FALSE, chain |-> feat, default |-> default]
    /\ rresult' = [done |-> TRUE, raised |-> "",
                   text |-> PyFormat(makeFunc(feat, default, n)),
                   errors |-> <<>>, trace |-> <<makeFunc(feat, default, n)>>]
    /\ UNCHANGED <<otext, windowVars, cacheVars, searchVars, textVars, sessionVars>>

NextRender ==
    \/ \E nodes \in NodeArgs : \E fmt \in FormatArgs : \E descend \in DescendArgs :
          \E func \in BOOLEAN : CallText(nodes, fmt, descend, func)
    \/ \E feat \in ChainArgs : \E default \in DefaultArgs : \E n \in TNodes :
          CallReplaceFunc(feat, default, n)

SpecRender == InitRender /\ [][NextRender]_vars

----------------------------------------------------------------------------
(* search(app, query, ...) of src/tf/applib/search.py and a session in which *)
(* it is used next to runSearch                                              *)

\* the queries a user runs through app.search
SessionQueries == Queries \cup {"qc"}

\* the values of the parameter sort: False, True, or a custom key function.
\* keyLast is lambda t: t[-1]; keyQuotient is lambda t: 6 // (t[-1] - 1), which
\* raises ZeroDivisionError for a tuple that ends in node 1
SortArgs == {"False", "True", "keyLast", "keyQuotient"}

KeyRaises(key, t) == key = "keyQuotient" /\ t[Len(t)] = 1

KeyValue(key, t) == IF key = "keyLast" THEN t[Len(t)] ELSE 6 \div (t[Len(t)] - 1)

\* sorted(list, key=key) for a key that does not raise: stable
RECURSIVE InsertBy(_, _, _)
InsertBy(key, x, s) ==
    IF s = <<>> THEN <<x>>
    ELSE IF KeyValue(key, x) < KeyValue(key, Head(s)) THEN <<x>> \o s
    ELSE <<Head(s)>> \o InsertBy(key, x, Tail(s))

RECURSIVE SortedBy(_, _, _)
SortedBy(key, s, acc) ==
    IF s = <<>> THEN acc ELSE SortedBy(key, Tail(s), InsertBy(key, Head(s), acc))

\* the generator after sorted() has collected its items: exhausted
GeneratorAfterSorted(gen) == <<>>

\* list(results)
ListOf(gen) == gen

\* sorted(results, key=sort) within try / except: sorted() first collects the
\* items of the generator, then computes the keys; when a key raises, the
\* warning is written and sortedResults = list(results)
SortWithKey(key, gen) ==
    IF \E i \in 1..Len(gen) : KeyRaises(key, gen[i])
    THEN [warned |-> TRUE, results |-> ListOf(GeneratorAfterSorted(gen))]
    ELSE [warned |-> FALSE, results |-> SortedBy(key, ListOf(gen), <<>>)]

\* features as search computes them from S.exe after its own execution
SearchFeatures(exe) == Features(exe, exe)

\* search(app, query, sets=s, shallow=False, sort=sort) when the generator of
\* S.search delivers gen
search(q, sort, gen) ==
    LET sorted == IF sort = "False" THEN [warned |-> FALSE, results |-> ListOf(gen)]
                  ELSE IF sort = "True" THEN [warned |-> FALSE, results |-> Sorted(ListOf(gen))]
                  ELSE SortWithKey(sort, gen)
    IN  [done |-> TRUE, results |-> sorted.results, warned |-> sorted.warned,
         delivered |-> gen, tupleFeatures |-> SearchFeatures(EngineExe(q))]

\* the calls of a session are made one after the other
AllIdle == \A w \in Workers : pc[w] = "idle"

\* a session starts: an empty cache, app.sets and the engine are given
InitSession ==
    /\ CacheGiven(MaxSessionCalls)
    /\ SessionIdle
    /\ WindowIdle
    /\ SearchIdle
    /\ TextIdle
    /\ RenderIdle

\* A.search(query, sets=s, sort=sort): S.search runs with here=True, so the
\* execution object of the query is left in S.exe
CallSearch(q, s, sort) ==
    /\ AllIdle
    /\ budget > 0
    /\ budget' = budget - 1
    /\ \E o \in Orders(EngineTuples(q, s, failTuples)) :
         /\ scall' = [query |-> q, sets |-> s, sort |-> sort, order |-> o]
         /\ sresult' = search(q, sort, Reorder(EngineTuples(q, s, failTuples), o))
    /\ Sexe' = EngineExe(q)
    /\ UNCHANGED <<cache, sets, failTuples, pc, call, raw, inner, ret,
                   engineRuns, completed, firstRet, overwritten>>
    /\ UNCHANGED <<windowVars, searchVars, textVars, renderVars>>

\* the user loads other extra node sets: app.sets = s
ChangeSets(s) ==
    /\ AllIdle
    /\ sets # s
    /\ sets' = s
    /\ UNCHANGED <<cache, Sexe, failTuples, pc, call, raw, inner, ret,
                   engineRuns, completed, firstRet, overwritten, budget>>
    /\ UNCHANGED nonCacheVars

NextSession ==
    \/ \E q \in SessionQueries : \E s \in SetsValues : \E sort \in SortArgs :
          CallSearch(q, s, sort)
    \/ \E s \in SetsValues : ChangeSets(s)
    \/ \E w \in Workers :
          \/ \E q \in Queries : SeqCallRunSearch(w, q)
          \/ RSStore(w)
          \/ Return(w)

SpecSession == InitSession /\ [][NextSession]_vars

----------------------------------------------------------------------------
(* Helpers for stating the properties *)

left == window[1]

right == window[2]

Returned(w) == pc[w] = "ret"

IsAscending(s) == \A i, j \in 1..Len(s) : i < j => ~LexLess(s[j], s[i])

Count(s, x) == Cardinality({i \in 1..Len(s) : s[i] = x})

SameBag(a, b) ==
    /\ Len(a) = Len(b)
    /\ \A i \in 1..Len(a) : Count(a, a[i]) = Count(b, a[i])

Failing(q) == EngineMessages(q) # ""

----------------------------------------------------------------------------
(* Properties of batchAround, under SpecWindow *)

\* C1: for every n >= 0, b > 0 and pivot p the window holds exactly min(b, n)
\* entries: right - left + 1 = min(b, n) when n > 0, and the slice selects no
\* entry when n = 0.
C1_WindowWidth ==
    wdone =>
        /\ nResults > 0 => right - left + 1 = Min(batch, nResults)
        /\ nResults = 0 => SliceCount(nResults, left, right) = 0

\* C2: for every n > 0, b > 0 and every integer pivot p (also p < 1 and p > n)
\* the window satisfies 1 <= left <= right <= n.
C2_WindowInRange ==
    (wdone /\ nResults > 0) =>
        /\ 1 <= left
        /\ left <= right
        /\ right <= nResults

\* C2 witness: a pivot beyond the last result has been windowed
C2_Witness ==
    /\ wdone
    /\ nResults > 1
    /\ position > nResults + 1
    /\ batch > 1
    /\ window = <<nResults, nResults>>

\* C3: for every n > 0, b > 0 and pivot p with 1 <= p <= n the window contains
\* the pivot: left <= p <= right.
C3_WindowContainsPivot ==
    (wdone /\ nResults > 0 /\ 1 <= position /\ position <= nResults) =>
        /\ left <= position
        /\ position <= right

\* C4: whenever 0 < n < b the window is the full range (1, n), for every pivot
\* p with 1 <= p <= n.
C4_FullRangeWhenSmall ==
    (wdone /\ 0 < nResults /\ nResults < batch
           /\ 1 <= position /\ position <= nResults) =>
        window = <<1, nResults>>

----------------------------------------------------------------------------
(* Properties of runSearch / runSearchCondensed *)

\* C5 (SpecSeq): in a sequence of calls on one cache, every runSearch call for
\* a query text made after a runSearch call for that text has returned does not
\* execute the engine and returns a value equal to the one the first call
\* returned.
C5_CacheHitNoRecompute ==
    \A w \in Workers :
        (Returned(w) /\ call[w].kind = "plain" /\ call[w].prior) =>
            /\ ~call[w].invoked
            /\ ret[w] = firstRet[call[w].query]

\* C5 witness: a repeated runSearch call has returned a non-empty result
C5_Witness ==
    \E w \in Workers :
        /\ Returned(w)
        /\ call[w].kind = "plain"
        /\ call[w].prior
        /\ ret[w].results # <<>>
        /\ ret[w] = firstRet[call[w].query]

\* C6 (Spec): when several workers call runSearch concurrently for the same
\* not yet cached query text, the engine is executed at most once for that key.
C6_AtMostOneComputation == \A q \in Queries : engineRuns[q] <= 1

\* C7 (Spec): under any interleaving of runSearch and runSearchCondensed calls,
\* a key that is present in the cache is never removed and the value stored
\* under it never changes.
C7_CacheMonotone ==
    [][\A k \in DOMAIN cache : k \in DOMAIN cache' /\ cache'[k] = cache[k]]_vars

\* C7 witness: a store has hit a key that was already present
C7_Witness ==
    /\ overwritten
    /\ \E q \in Queries : engineRuns[q] >= 2 /\ <<q, FALSE>> \in DOMAIN cache

C9_CanonicalOrder ==
    \A w \in Workers :
        (Returned(w) /\ call[w].kind = "plain") =>
            /\ SameBag(ret[w].results,
                       EngineTuples(call[w].query, sets, failTuples))
            /\ IsAscending(ret[w].results)
            /\ cache[<<call[w].query, FALSE>>].results = ret[w].results

\* C9 witness: the engine delivered three tuples out of order and runSearch
\* has returned them
C9_Witness ==
    \E w \in Workers :
        /\ Returned(w)
        /\ call[w].kind = "plain"
        /\ call[w].invoked
        /\ call[w].resorted
        /\ Len(ret[w].results) = 3

\* C10 (SpecSeq): over a sequential series of plain and condensed calls, after
\* a condensed call both the plain entry and the condensed entry of its
\* (query, condenseType) are in the cache under distinct keys, the engine is
\* executed at most once per query text, a plain call never returns condensed
\* tuples and a condensed call returns only tuples of its own condense type.
C10_CondensedIndependent ==
    /\ \A q \in Queries : engineRuns[q] <= 1
    /\ \A w \in Workers :
        /\ (Returned(w) /\ call[w].kind = "condensed") =>
              /\ <<call[w].query, FALSE>> \in DOMAIN cache
              /\ <<call[w].query, TRUE, call[w].ctype>> \in DOMAIN cache
              /\ <<call[w].query, FALSE>> # <<call[w].query, TRUE, call[w].ctype>>
              /\ \A i \in 1..Len(ret[w].results) :
                    /\ Len(ret[w].results[i]) = 1
                    /\ otype(ret[w].results[i][1]) = call[w].ctype
        /\ (Returned(w) /\ call[w].kind = "plain") =>
              \A i \in 1..Len(ret[w].results) :
                 \A j \in 1..Len(ret[w].results[i]) :
                    otype(ret[w].results[i][j]) \notin CondenseTypes

\* C10 witness: a condensed call has returned after a plain entry and the
\* entry of the other condense type were already cached for its query
C10_Witness ==
    \E w \in Workers :
        /\ Returned(w)
        /\ call[w].kind = "condensed"
        /\ ~call[w].invoked
        /\ ret[w].results # <<>>
        /\ engineRuns[call[w].query] = 1
        /\ \A t \in CondenseTypes : <<call[w].query, TRUE, t>> \in DOMAIN cache

----------------------------------------------------------------------------
(* Properties of exposed_search, under SpecSearch *)

\* the cache key the request's query is answered under
RequestKey ==
    IF request.condensed /\ request.condenseType # ""
    THEN CondensedKey(request.query, request.condenseType)
    ELSE PlainKey(request.query)

\* the value the query of the served request was answered with
AnsweredValue == IF request.query = "" THEN NoValue ELSE cache[RequestKey]

\* the query results the served request worked with
Answered == IF request.query = "" THEN <<>> ELSE QueryResults(AnsweredValue)

\* the combined total of the request and the window that belongs to it
SearchTotal == Len(TupleResults(request.tuples)) + Len(Answered)

SearchWindow == batchAround(SearchTotal, request.position, request.batch)

Served == response.done /\ ~response.raised

\* the entries of a table with a query-numbered (positive) index
RECURSIVE QueryEntries(_)
QueryEntries(t) ==
    IF t = <<>> THEN <<>>
    ELSE IF Head(t)[1] > 0 THEN <<Head(t)>> \o QueryEntries(Tail(t))
    ELSE QueryEntries(Tail(t))

Shows(t, k) == \E i \in 1..Len(t) : t[i] = <<k, Answered[k]>>

\* C11: in every assembled result sequence the literal entries (negative
\* indices) come first; the query-numbered entries follow with strictly
\* increasing indices, each carrying the query result of that 1-based position:
\* kept-open rows before the window, the window rows, kept-open rows after it;
\* no query-numbered index occurs twice.
C11_AssemblyOrder ==
    Served =>
        LET t == response.table IN
        /\ \A i, j \in 1..Len(t) : (i < j /\ t[j][1] < 0) => t[i][1] < 0
        /\ \A i, j \in 1..Len(t) : (i < j /\ t[i][1] > 0) => t[i][1] < t[j][1]
        /\ \A i \in 1..Len(t) : t[i][1] # 0
        /\ \A i \in 1..Len(t) :
              t[i][1] > 0 => /\ t[i][1] <= Len(Answered)
                             /\ t[i][2] = Answered[t[i][1]]

\* C11 witness: a table with a literal row, a kept-open row before the window,
\* a window row and a kept-open row after the window
C11_Witness ==
    /\ Served
    /\ \E i \in 1..Len(response.table) : response.table[i][1] < 0
    /\ \E i \in 1..Len(response.table) :
          /\ response.table[i][1] > 0
          /\ response.table[i][1] < response.start
    /\ \E i \in 1..Len(response.table) : response.table[i][1] = response.start
    /\ \E i \in 1..Len(response.table) : response.table[i][1] > SearchWindow[2]

\* C12: every kept-open index k with 1 <= k <= number of query results that
\* lies outside the window [left, right] appears in the assembled results,
\* paired with the k-th query result.
C12_KeptOpenShown ==
    response.done =>
        \A k \in request.opened :
            (/\ 1 <= k
             /\ k <= Len(Answered)
             /\ (k < SearchWindow[1] \/ k > SearchWindow[2]))
            => Shows(response.table, k)

\* C13: for every request with a query without diagnostics and combined total
\* n >= 1 the response reports start = left and total = n, where
\* (left, right) = batchAround(n, position, batch), and the windowed segment
\* holds exactly right - left + 1 entries, numbered left..right.
C13_WindowReported ==
    (/\ response.done
     /\ request.query # ""
     /\ ~Failing(request.query)
     /\ SearchTotal >= 1)
    => /\ ~response.raised
       /\ response.start = SearchWindow[1]
       /\ response.total = SearchTotal
       /\ \A n \in SearchWindow[1]..SearchWindow[2] :
             \E i \in 1..Len(response.table) : response.table[i][1] = n
       /\ Cardinality({i \in 1..Len(response.table) :
                          response.table[i][1] \in SearchWindow[1]..SearchWindow[2]})
          = SearchWindow[2] - SearchWindow[1] + 1

\* C14: when a literal-tuple line is malformed the failure is reported in
\* tupleMessages, the call does not raise, and the query-numbered entries, the
\* window start and the query diagnostics are those of the same request sent
\* without literal tuples.
C14_LiteralFailureIsolated ==
    (/\ response.done
     /\ request.tuples # <<>>
     /\ ParseFails(request.tuples))
    => LET plain == Assemble([request EXCEPT !.tuples = <<>>], AnsweredValue) IN
       /\ response.tupleMessages # ""
       /\ ~response.raised
       /\ ~plain.raised
       /\ QueryEntries(response.table) = QueryEntries(plain.table)
       /\ response.start = plain.start
       /\ response.queryMessages = plain.queryMessages

\* C14 witness: a request with a well-formed and a malformed literal line and
\* a query whose results are windowed from position 2 on
C14_Witness ==
    /\ Served
    /\ ParseFails(request.tuples)
    /\ \E j \in 1..Len(request.tuples) :
          request.tuples[j] # <<>> /\ ~ParseFails(<<request.tuples[j]>>)
    /\ response.tupleMessages # ""
    /\ response.start >= 2
    /\ QueryEntries(response.table) # <<>>

\* C15: when the query's diagnostics are non-empty the response contains no
\* query-numbered entries, the query adds 0 to the total, and the diagnostics
\* are returned unchanged.
C15_FailingQueryEmpty ==
    (/\ response.done
     /\ request.query # ""
     /\ Failing(request.query))
    => /\ QueryEntries(response.table) = <<>>
       /\ response.total = Len(TupleResults(request.tuples))
       /\ response.queryMessages = EngineMessages(request.query)

----------------------------------------------------------------------------
(* Properties of the Text object, under SpecText *)

StructureOps == {"headingFromNode", "nodeFromHeading", "top", "up", "down", "structure"}

\* C16: when no structure is configured, each of headingFromNode,
\* nodeFromHeading, top, up, down and structure reports the condition through
\* the diagnostics channel and returns the null sentinel; none of them raises.
C16_StructureAbsentNotFatal ==
    (/\ tresult.done
     /\ ~corpus.structured
     /\ tcall.op \in StructureOps)
    => /\ tresult.raised = ""
       /\ tresult.errors # <<>>
       /\ tresult.value = PyNone

\* C17: with 1, 2 or 3 section levels, sectionTuple(node, fillup=true) returns
\* for a node of any type a tuple whose length is the number of levels, and
\* does not raise.
C17_FillupLength ==
    (/\ tresult.done
     /\ tcall.op = "sectionTuple"
     /\ tcall.fillup
     /\ corpus.levels >= 1)
    => /\ tresult.raised = ""
       /\ Len(tresult.value.t) = corpus.levels

\* C18: in the tuple sectionFromNode returns, the member of every section
\* level at which the reference slot of the node has no enclosing node is None.
C18_OutsideSectionIsNone ==
    (/\ tresult.done
     /\ tcall.op = "sectionFromNode"
     /\ tresult.raised = "")
    => \A i \in 1..Len(tresult.value.t) :
          LUp(RefSlot(tcall.node, tcall.lastSlot), SectionTypes(corpus)[i]) = <<>>
          => tresult.value.t[i] = PyNone

\* the section nodes of x at all levels exist and carry a label, the top one a
\* name in the language the code stands for
LabelsResolve(c, x, lastSlot, lang) ==
    LET st == sectionTuple(c, x, lastSlot, FALSE) IN
    /\ st.raised = ""
    /\ Len(st.value.t) = c.levels
    /\ \A i \in 1..Len(st.value.t) :
          /\ st.value.t[i].kind = "int"
          /\ i = 1 => st.value.t[i].n \in DOMAIN BookNames[LangKey(c, lang)]
          /\ i > 1 => st.value.t[i].n \in DOMAIN SectionNumber

\* no other top-level section bears the name of the top-level section of x in
\* the language the code stands for
TopNameUnique(c, x, lastSlot, lang) ==
    LET names == BookNames[LangKey(c, lang)]
        b == sectionTuple(c, x, lastSlot, FALSE).value.t[1].n
    IN  \A m \in DOMAIN names : names[m] = names[b] => m = b

\* a round trip sectionFromNode -> nodeFromSection from a bottom-level section
\* node whose labels resolve has been made
RoundTripMade ==
    /\ tresult.done
    /\ tcall.op = "nodeFromSection"
    /\ corpus.levels >= 1
    /\ fOtype(tcall.node) = SectionTypes(corpus)[corpus.levels]
    /\ LabelsResolve(corpus, tcall.node, tcall.lastSlot, tcall.lang)

C20_HeadingRoundTrip ==
    (/\ tresult.done
     /\ tcall.op = "nodeFromHeadingOfNode")
    => LET coll == {y \in StructNodes : HeadingOf(y) = HeadingOf(tcall.node)} IN
       /\ tresult.raised = ""
       /\ tcall.arg = HeadingOf(tcall.node)
       /\ coll = {tcall.node} => tresult.value = PyInt(tcall.node)
       /\ coll # {tcall.node} =>
             /\ tresult.value.kind = "int"
             /\ tresult.value.n \in coll
             /\ \A y \in coll : y <= tresult.value.n
             /\ HdMultGet(tcall.arg) = coll

\* C20 witness: the round trip from chapter 9, whose heading chapter 10 shares
C20_Witness ==
    /\ tresult.done
    /\ tcall.op = "nodeFromHeadingOfNode"
    /\ tcall.node = 9
    /\ tresult.value = PyInt(10)

----------------------------------------------------------------------------
(* Further properties of batchAround, under SpecWindow *)

\* C26: whenever the left edge is clipped by the boundary
\* (p - ceil(b/2) < 1) and n >= 1, the window is exactly (1, min(b, n)).
C26_RightwardBias ==
    (/\ wdone
     /\ nResults >= 1
     /\ position - ((batch + 1) \div 2) < 1)
    => window = <<1, Min(batch, nResults)>>

\* C26 witness: a pivot at the first result with room to the right; the window
\* reaches beyond pivot + ceil(b/2)
C26_Witness ==
    /\ wdone
    /\ position = 1
    /\ batch = 4
    /\ nResults = 6
    /\ window = <<1, 4>>

----------------------------------------------------------------------------
(* Further properties of exposed_search, under SpecSearch *)

\* C28: for every request, assembling the results does not raise, and every
\* query-numbered entry (k, r) of the assembled sequence has
\* 1 <= k <= number of query results and r = the k-th query result.
C28_AssembledIndicesValid ==
    response.done =>
        /\ ~response.raised
        /\ \A i \in 1..Len(response.table) :
              response.table[i][1] > 0 =>
                  /\ response.table[i][1] <= Len(Answered)
                  /\ response.table[i][2] = Answered[response.table[i][1]]

----------------------------------------------------------------------------
(* Properties of Text.text and of the compiled formats, under SpecRender *)

TextCalled == rresult.done /\ rcall.op = "text"

RenderedNodes == 1..Len(rcall.nodes)

HasTypeDefault(n) == fOtype(n) \in DOMAIN defaultFormats(otext)

TypeDefault(n) == defaultFormats(otext)[fOtype(n)]

\* the i-th input node was expanded to xs and those were rendered with format f
\* (or with the custom function, when one was passed)
RenderedWith(i, f, xs) ==
    /\ rresult.trace[i].fmt = f
    /\ rresult.trace[i].xnodes = xs
    /\ rresult.trace[i].pieces =
          [j \in 1..Len(xs) |-> IF rcall.func THEN CustomFunc(xs[j]) ELSE xformat(f, xs[j])]

ClaimedFormat(n) == IF HasTypeDefault(n) THEN TypeDefault(n) ELSE DEFAULT_FORMAT

\* the format of a node when none is requested: a per-type default counts only
\* when descend is not True
ImplicitFormat(n) ==
    IF rcall.descend # "true" /\ HasTypeDefault(n) THEN TypeDefault(n) ELSE DEFAULT_FORMAT

\* C22: when no explicit format is requested, each node is rendered with its
\* node type's default format if one is declared and otherwise with the global
\* default format, for every value of explicitDescend (true, false or unset).
C22_EffectiveFormat ==
    (/\ TextCalled
     /\ rcall.fmt = ""
     /\ rresult.raised = "")
    => \A i \in RenderedNodes :
          rresult.trace[i].fmt = ClaimedFormat(rcall.nodes[i])

\* C22 as amended: when no explicit format is requested and the call returns,
\* each node is rendered with its node type's default format if one is declared
\* and explicitDescend is false or unset, and with the global default format
\* otherwise (always so when explicitDescend is true).
C22_EffectiveFormatDescend ==
    (/\ TextCalled
     /\ rcall.fmt = ""
     /\ rresult.raised = "")
    => \A i \in RenderedNodes :
          /\ rresult.trace[i].fmt = ImplicitFormat(rcall.nodes[i])
          /\ RenderedWith(i, ImplicitFormat(rcall.nodes[i]), rresult.trace[i].xnodes)

\* C22 witness: a verse and a book were rendered without a format and with
\* descend unset in a dataset that declares verse-default: the verse by
\* verse-default, the slots of the book by the global default
C22_Witness ==
    /\ TextCalled
    /\ rcall.fmt = ""
    /\ rcall.descend = "unset"
    /\ ~rcall.func
    /\ rcall.nodes = <<13, 8>>
    /\ {DEFAULT_FORMAT, "verse-default"} \subseteq otext
    /\ rresult.raised = ""
    /\ rresult.trace[1].fmt = "verse-default"
    /\ rresult.trace[2].fmt = DEFAULT_FORMAT
    /\ rresult.text = "v2;in ? "

\* the descend-to type of the i-th input node as the claim has it
ClaimedD(n) ==
    IF rcall.descend = "false" THEN fOtype(n)
    ELSE IF rcall.fmt # "" THEN xdTypes(rcall.fmt)
    ELSE IF rcall.descend = "unset" /\ HasTypeDefault(n) THEN fOtype(n)
    ELSE xdTypes(DEFAULT_FORMAT)

\* the descendants of type t of a node
Descendants(n, t) == IF t = slotType THEN eoslots[n - maxSlot] ELSE LDown(n, t)

\* the D rules in a call that has returned
DescendRules ==
    \A i \in RenderedNodes :
        LET n == rcall.nodes[i] IN
          /\ rresult.trace[i].down = ClaimedD(n)
          /\ rcall.descend = "false" => Len(rresult.trace[i].pieces) = 1
          /\ rresult.trace[i].xnodes =
                IF ClaimedD(n) = fOtype(n) THEN <<n>> ELSE Descendants(n, ClaimedD(n))
          /\ Len(rresult.trace[i].pieces) = Len(rresult.trace[i].xnodes)

\* C23: with explicitDescend = false D is the node's own type, so every input
\* node yields exactly one rendered piece; with explicitDescend unset D is the
\* explicit format's declared type if a format was requested, the node's own
\* type if the format came from a per-type default, and the global default
\* format's declared type otherwise; with explicitDescend = true D is the
\* declared type of the format that is applied; a node is expanded to its
\* descendants of type D only when D differs from its own type.
C23_DescendType ==
    (/\ TextCalled
     /\ rcall.fmt # "" => rcall.fmt \in otext)
    => /\ rresult.raised = ""
       /\ Len(rresult.trace) = Len(rcall.nodes)
       /\ DescendRules

\* C24: when a node has no resolvable format because the global default format
\* is not declared (and no explicit or per-type default format applies), the
\* node is rendered as "<type><id>", the call completes and returns the
\* concatenated text with one aggregated warning, and never aborts or raises.
C24_MissingDefaultDegrades ==
    (/\ TextCalled
     /\ rcall.fmt = ""
     /\ DEFAULT_FORMAT \notin otext
     /\ \E i \in RenderedNodes : ImplicitFormat(rcall.nodes[i]) = DEFAULT_FORMAT)
    => /\ rresult.raised = ""
       /\ Len(rresult.errors) = 1
       /\ Len(rresult.trace) = Len(rcall.nodes)
       /\ \A i \in RenderedNodes :
             ImplicitFormat(rcall.nodes[i]) = DEFAULT_FORMAT =>
                 rresult.trace[i].pieces =
                     [j \in 1..Len(rresult.trace[i].xnodes) |->
                         rescue(rresult.trace[i].xnodes[j])]

\* the positions of a chain whose feature has a value for node n
Valued(feat, n) == {i \in 1..Len(feat) : n \in DOMAIN FsData[feat[i]]}

\* the value of the first feature in chain order that has one for n, the
\* default when there is none
FirstInChain(feat, default, n) ==
    IF Valued(feat, n) = {} THEN PyStr(default)
    ELSE FsData[feat[CHOOSE i \in Valued(feat, n) : \A j \in Valued(feat, n) : i <= j]][n]

\* C27: for a chain f1..fk of any length k >= 1 with configured default d, the
\* value substituted for node n is the value of the first feature in chain
\* order that has a value for n (whatever that value is, including 0 or the
\* empty string), and d only when no feature in the chain has a value for n.
C27_FallbackChain ==
    (rresult.done /\ rcall.op = "replace")
    => rresult.trace[1] = FirstInChain(rcall.chain, rcall.default, rcall.nodes[1])

----------------------------------------------------------------------------
(* Properties of search and of runSearch within a session, under SpecSession *)

\* C25: when the user-supplied sort key raises while the results delivered by
\* the low-level search (a one-pass generator) are being sorted, search reports
\* a warning and returns all results that the engine produced, unsorted in
\* engine order; no result is lost.
C25_FailingSortKeyKeepsResults ==
    (/\ sresult.done
     /\ scall.sort \notin {"False", "True"}
     /\ \E i \in 1..Len(sresult.delivered) : KeyRaises(scall.sort, sresult.delivered[i]))
    => /\ sresult.warned
       /\ sresult.results = sresult.delivered

\* C29: in any sequence of runSearch calls during which the session's extra
\* node sets change between calls, the value returned for query q while the
\* sets are S equals the canonically sorted result of the engine for (q, S).
C29_CacheAgreesWithSets ==
    \A w \in Workers :
        (Returned(w) /\ call[w].kind = "plain") =>
            ret[w].results = Sorted(EngineTuples(call[w].query, sets, failTuples))

\* the features of slot i (counted from 0) in the execution of query q itself
OwnFeatures(q, i) == EngineExe(q).qnodes[i + 1] \cup NodeMapGet(EngineExe(q), i)

\* C30: the featureUsage that runSearch caches for query q lists, per
\* query-template slot, only feature names taken from the execution of q
\* itself; it does not depend on which other queries were executed earlier
\* through the shared search engine object.
C30_FeaturesOfOwnQuery ==
    \A q \in Queries :
        PlainKey(q) \in DOMAIN cache =>
            \A j \in 1..Len(cache[PlainKey(q)].features) :
                cache[PlainKey(q)].features[j][2]
                    \subseteq OwnFeatures(q, cache[PlainKey(q)].features[j][1])

====
